---- MODULE Spec2Model ----
(***************************************************************************)
(* The signal engine of the market-data API route (src/unnamed/part_000):  *)
(* indicator library (calculateSMA, calculateRSI, calculateMomentum),     *)
(* generateSignal, combineSignals, the recommendation text and the request *)
(* handler that chains them; and the dashboard page that calls the route   *)
(* (src/pages/index.tsx), as far as its requests and its state go.         *)
(*                                                                         *)
(* Numbers.  The code computes on IEEE doubles.  Here a number is an exact *)
(* rational <<n, d>> with d > 0; <<0, 0>> stands for the values on which   *)
(* every JavaScript comparison is false (undefined read from an empty      *)
(* array, NaN).  Closing prices are positive integers, so no division of   *)
(* the code has a zero divisor and every sum of closes is exact.           *)
(***************************************************************************)
EXTENDS Integers, Sequences, FiniteSets, TLC

VARIABLES pc, dataDaily, runs, period, outSMA, outRSI, outMomentum,
          dailySignal, intradaySignal, combinedSignal, recommendation, response

\* The dashboard page (src/pages/index.tsx, Home): its React state, the
\* requests it has sent and not yet heard of, and what the user did.
VARIABLES symbol, inputSymbol, homeData, loading, error,
          mounted, inFlight, submits, lastSubmitted, failed

engineVars == <<pc, dataDaily, runs, period, outSMA, outRSI, outMomentum,
                dailySignal, intradaySignal, combinedSignal, recommendation, response>>

homeVars == <<symbol, inputSymbol, homeData, loading, error,
              mounted, inFlight, submits, lastSubmitted, failed>>

vars == <<pc, dataDaily, runs, period, outSMA, outRSI, outMomentum,
          dailySignal, intradaySignal, combinedSignal, recommendation, response,
          symbol, inputSymbol, homeData, loading, error,
          mounted, inFlight, submits, lastSubmitted, failed>>

(***************************************************************************)
(* Bounds of the model.                                                    *)
(***************************************************************************)
\* runs of bars a fed series is made of, after its first bar
MaxRuns == 3
\* bars in a fed series
MaxLen == 60
\* SpecIndicators: length of a price series, largest close, largest period
MaxSeqLen == 5
MaxClose == 3
MaxPeriod == 3

(***************************************************************************)
(* Rational arithmetic standing for the code's number arithmetic.          *)
(***************************************************************************)
NaN == <<0, 0>>

R(n) == <<n, 1>>

IsNum(a) == a[2] # 0

RAdd(a, b) == IF IsNum(a) /\ IsNum(b) THEN <<a[1] * b[2] + b[1] * a[2], a[2] * b[2]>> ELSE NaN

RSub(a, b) == IF IsNum(a) /\ IsNum(b) THEN <<a[1] * b[2] - b[1] * a[2], a[2] * b[2]>> ELSE NaN

RMul(a, b) == IF IsNum(a) /\ IsNum(b) THEN <<a[1] * b[1], a[2] * b[2]>> ELSE NaN

\* a / b; the divisor is never zero on the inputs of this model (closes > 0,
\* period >= 1, avgLoss = 0 returns early)
RDiv(a, b) ==
    IF ~(IsNum(a) /\ IsNum(b)) \/ b[1] = 0 THEN NaN
    ELSE IF b[1] > 0 THEN <<a[1] * b[2], a[2] * b[1]>>
    ELSE <<-(a[1] * b[2]), -(a[2] * b[1])>>

\* JavaScript's <, > and ===: false as soon as one side is undefined/NaN
RLt(a, b) == IsNum(a) /\ IsNum(b) /\ a[1] * b[2] < b[1] * a[2]

RGt(a, b) == RLt(b, a)

REq(a, b) == IsNum(a) /\ IsNum(b) /\ a[1] * b[2] = b[1] * a[2]

\* Math.floor in place of Math.round
MathRound_floor(x) == x[1] \div x[2]

\* Math.round(x): the integer nearest to x, ties towards +infinity
MathRound(x) == (2 * x[1] + x[2]) \div (2 * x[2])

\* Math.round(x * 100) / 100, kept as a count of hundredths over 100
Round2(x) == IF IsNum(x) THEN <<MathRound(RMul(x, R(100))), 100>> ELSE NaN

Min(a, b) == IF a < b THEN a ELSE b

(***************************************************************************)
(* Arrays.                                                                 *)
(***************************************************************************)
\* Array.prototype.slice(-k): the last k elements (all of them when the array
\* is shorter, and also when k = 0, since slice(-0) is slice(0))
SliceLast(s, k) ==
    IF k = 0 \/ Len(s) <= k THEN s
    ELSE SubSeq(s, Len(s) - k + 1, Len(s))

\* arr.reduce((a, b) => a + b, 0) on integers
RECURSIVE SumFrom(_, _)
SumFrom(s, i) == IF i > Len(s) THEN 0 ELSE s[i] + SumFrom(s, i + 1)

Sum(s) == SumFrom(s, 1)

\* arr[i] with a zero-based index i; undefined outside the array
At(s, i) == IF i >= 0 /\ i < Len(s) THEN R(s[i + 1]) ELSE NaN

\* x || 0
OrZero(x) == IF ~IsNum(x) \/ x[1] = 0 THEN R(0) ELSE x

(***************************************************************************)
(* Indicator library.                                                      *)
(***************************************************************************)
\* calculateSMA with slice(period) in place of slice(-period)
calculateSMA_sliceFromPeriod(data, p) ==
    IF Len(data) < p THEN OrZero(At(data, Len(data) - 1))
    ELSE RDiv(R(Sum(SubSeq(data, p + 1, Len(data)))), R(p))

\* calculateSMA falling back to the oldest element, data[0]
calculateSMA_oldestFallback(data, p) ==
    IF Len(data) < p THEN OrZero(At(data, 0))
    ELSE RDiv(R(Sum(SliceLast(data, p))), R(p))

calculateSMA(data, p) ==
    IF Len(data) < p THEN OrZero(At(data, Len(data) - 1))
    ELSE RDiv(R(Sum(SliceLast(data, p))), R(p))

\* changes[i] = prices[i] - prices[i - 1], i = 1 .. length - 1
Changes(prices) == [i \in 1..(Len(prices) - 1) |-> prices[i + 1] - prices[i]]

\* RSIOfWindow answering 50 for a window with neither gains nor losses
RSIOfWindow_flatIsNeutral(window, p) ==
    LET gains == [i \in 1..Len(window) |-> IF window[i] > 0 THEN window[i] ELSE 0]
        losses == [i \in 1..Len(window) |-> IF window[i] < 0 THEN -window[i] ELSE 0]
        avgGain == RDiv(R(Sum(gains)), R(p))
        avgLoss == RDiv(R(Sum(losses)), R(p))
    IN IF REq(avgLoss, R(0)) THEN (IF REq(avgGain, R(0)) THEN R(50) ELSE R(100))
       ELSE LET rs == RDiv(avgGain, avgLoss)
            IN RSub(R(100), RDiv(R(100), RAdd(R(1), rs)))

\* the rest of calculateRSI, given changes.slice(-period)
RSIOfWindow(window, p) ==
    LET gains == [i \in 1..Len(window) |-> IF window[i] > 0 THEN window[i] ELSE 0]
        losses == [i \in 1..Len(window) |-> IF window[i] < 0 THEN -window[i] ELSE 0]
        avgGain == RDiv(R(Sum(gains)), R(p))
        avgLoss == RDiv(R(Sum(losses)), R(p))
    IN IF REq(avgLoss, R(0)) THEN R(100)
       ELSE LET rs == RDiv(avgGain, avgLoss)
            IN RSub(R(100), RDiv(R(100), RAdd(R(1), rs)))

\* calculateRSI over the first `period` changes, slice(0, period)
calculateRSI_firstWindow(prices, p) ==
    IF Len(prices) < p + 1 THEN R(50)
    ELSE RSIOfWindow(SubSeq(Changes(prices), 1, p), p)

calculateRSI(prices, p) ==
    IF Len(prices) < p + 1 THEN R(50)
    ELSE RSIOfWindow(SliceLast(Changes(prices), p), p)

\* calculateMomentum reading the close `period` steps before the last one
calculateMomentum_periodBack(prices, p) ==
    IF Len(prices) < p THEN R(0)
    ELSE LET latest == At(prices, Len(prices) - 1)
             past == At(prices, Len(prices) - 1 - p)
         IN RMul(RDiv(RSub(latest, past), past), R(100))

calculateMomentum(prices, p) ==
    IF Len(prices) < p THEN R(0)
    ELSE LET latest == At(prices, Len(prices) - 1)
             past == At(prices, Len(prices) - p)
         IN RMul(RDiv(RSub(latest, past), past), R(100))

(***************************************************************************)
(* Signal generator.  A bar is [timestamp, close]: open, high, low and     *)
(* volume are carried by the code but read by no function of the engine.   *)
(***************************************************************************)
Closes(data) == [i \in 1..Len(data) |-> data[i].close]

\* the unrounded indicators and the latest close of generateSignal
Indicators(closes) ==
    [sma20 |-> calculateSMA(closes, 20),
     sma50 |-> calculateSMA(closes, 50),
     rsi |-> calculateRSI(closes, 14),
     momentum |-> calculateMomentum(closes, 10),
     currentPrice |-> At(closes, Len(closes) - 1)]

\* BuyCondition without its rsi test
BuyCondition_noRsi(ind) ==
    /\ RGt(ind.currentPrice, ind.sma20)
    /\ RGt(ind.sma20, ind.sma50)
    /\ RGt(ind.momentum, R(0))

BuyCondition(ind) ==
    /\ RGt(ind.currentPrice, ind.sma20)
    /\ RGt(ind.sma20, ind.sma50)
    /\ RLt(ind.rsi, R(70))
    /\ RGt(ind.momentum, R(0))

\* SellCondition without its momentum test
SellCondition_noMomentum(ind) ==
    /\ RLt(ind.currentPrice, ind.sma20)
    /\ RLt(ind.sma20, ind.sma50)
    /\ RGt(ind.rsi, R(30))

SellCondition(ind) ==
    /\ RLt(ind.currentPrice, ind.sma20)
    /\ RLt(ind.sma20, ind.sma50)
    /\ RGt(ind.rsi, R(30))
    /\ RLt(ind.momentum, R(0))

BuyStrength(ind) ==
    Min(100, (IF RLt(ind.rsi, R(30)) THEN 90 ELSE 70)
             + (IF RGt(ind.momentum, R(5)) THEN 20 ELSE 10))

\* SellStrength without the Math.min cap
SellStrength_uncapped(ind) ==
    (IF RGt(ind.rsi, R(70)) THEN 90 ELSE 70) + (IF RLt(ind.momentum, R(-5)) THEN 20 ELSE 10)

SellStrength(ind) ==
    Min(100, (IF RGt(ind.rsi, R(70)) THEN 90 ELSE 70)
             + (IF RLt(ind.momentum, R(-5)) THEN 20 ELSE 10))

SignalOf(ind, timeframe) ==
    LET rounded == [sma20 |-> Round2(ind.sma20), sma50 |-> Round2(ind.sma50),
                    rsi |-> Round2(ind.rsi), momentum |-> Round2(ind.momentum)]
    IN IF BuyCondition(ind)
       THEN [timeframe |-> timeframe, signal |-> "BUY",
             strength |-> BuyStrength(ind), indicators |-> rounded]
       ELSE IF SellCondition(ind)
       THEN [timeframe |-> timeframe, signal |-> "SELL",
             strength |-> SellStrength(ind), indicators |-> rounded]
       ELSE [timeframe |-> timeframe, signal |-> "HOLD",
             strength |-> 40, indicators |-> rounded]

\* generateSignal refusing an empty series and timestamps out of order
generateSignal_rejecting(data, timeframe) ==
    IF data = <<>> \/ \E i \in 1..(Len(data) - 1) : data[i].timestamp >= data[i + 1].timestamp
    THEN [timeframe |-> timeframe, signal |-> "REJECTED", strength |-> 0,
          indicators |-> [sma20 |-> NaN, sma50 |-> NaN, rsi |-> NaN, momentum |-> NaN]]
    ELSE CHOOSE sig \in {SignalOf(ind, timeframe) : ind \in {Indicators(Closes(data))}} : TRUE

\* the indicators are bound once (ind \in {...}), as the code's consts are
generateSignal(data, timeframe) ==
    CHOOSE sig \in {SignalOf(ind, timeframe) : ind \in {Indicators(Closes(data))}} : TRUE

(***************************************************************************)
(* Signal combiner.  The weights 0.6 and 0.4 are kept as 6/10 and 4/10.   *)
(***************************************************************************)
dailyWeight == <<6, 10>>

intradayWeight == <<4, 10>>

\* combineSignals whose BUY branch forgets to look at the intraday direction
combineSignals_dailyBuyWins(daily, intraday) ==
    LET combinedStrength == RAdd(RMul(R(daily.strength), dailyWeight),
                                 RMul(R(intraday.strength), intradayWeight))
        signal == IF daily.signal = intraday.signal THEN daily.signal
                  ELSE IF daily.signal = "BUY" THEN "BUY"
                  ELSE IF daily.signal = "SELL" /\ intraday.signal # "BUY" THEN "SELL"
                  ELSE "HOLD"
    IN [timeframe |-> "combined", signal |-> signal,
        strength |-> MathRound(combinedStrength), indicators |-> daily.indicators]

\* combineSignals carrying the intraday indicators into the result
combineSignals_intradayIndicators(daily, intraday) ==
    LET combinedStrength == RAdd(RMul(R(daily.strength), dailyWeight),
                                 RMul(R(intraday.strength), intradayWeight))
        signal == IF daily.signal = intraday.signal THEN daily.signal
                  ELSE IF daily.signal = "BUY" /\ intraday.signal # "SELL" THEN "BUY"
                  ELSE IF daily.signal = "SELL" /\ intraday.signal # "BUY" THEN "SELL"
                  ELSE "HOLD"
    IN [timeframe |-> "combined", signal |-> signal,
        strength |-> MathRound(combinedStrength), indicators |-> intraday.indicators]

combineSignals(daily, intraday) ==
    LET combinedStrength == RAdd(RMul(R(daily.strength), dailyWeight),
                                 RMul(R(intraday.strength), intradayWeight))
        signal == IF daily.signal = intraday.signal THEN daily.signal
                  ELSE IF daily.signal = "BUY" /\ intraday.signal # "SELL" THEN "BUY"
                  ELSE IF daily.signal = "SELL" /\ intraday.signal # "BUY" THEN "SELL"
                  ELSE "HOLD"
    IN [timeframe |-> "combined", signal |-> signal,
        strength |-> MathRound(combinedStrength), indicators |-> daily.indicators]

(***************************************************************************)
(* Recommendation text of the handler, as the sequence of its words (the  *)
(* pieces between blanks); a number is written in decimal.                *)
(***************************************************************************)
Pct(n) == ToString(n) \o "%"

TrendWords(daily, intraday) ==
    <<"signal.", "Daily", "trend", "is", daily.signal, "with", Pct(daily.strength),
      "confidence.", "15-min", "trend", "shows", intraday.signal, "with",
      Pct(intraday.strength), "confidence.">>

Recommendation(daily, intraday, combined) ==
    IF combined.signal = "BUY"
    THEN <<"Strong">> \o (IF combined.strength > 80 THEN <<"BUY">> ELSE <<"Moderate", "BUY">>)
         \o TrendWords(daily, intraday)
    ELSE IF combined.signal = "SELL"
    THEN <<"Strong">> \o (IF combined.strength > 80 THEN <<"SELL">> ELSE <<"Moderate", "SELL">>)
         \o TrendWords(daily, intraday)
    ELSE <<"HOLD", "position.", "Market", "conditions", "are", "mixed.",
           "Daily:", daily.signal, "(" \o Pct(daily.strength) \o "),",
           "15-min:", intraday.signal, "(" \o Pct(intraday.strength) \o ").",
           "Wait", "for", "clearer", "signals.">>

(***************************************************************************)
(* The data feed.  generateSyntheticData walks a price from basePrice and  *)
(* pushes one bar per step with increasing timestamps; Math.random makes   *)
(* every series possible.  Here a series is a first bar followed by runs   *)
(* of equal steps, so that long series stay enumerable.                    *)
(***************************************************************************)
BasePrices == {100, 600}

RunLens == {5, 9, 45}

Steps == {-13, -3, 1, 3, 13}

Bar(t, c) == [timestamp |-> t, close |-> c]

AppendRun(data, n, step) ==
    data \o [i \in 1..n |-> Bar(Len(data) + i, data[Len(data)].close + step * i)]

RECURSIVE Series(_, _)
Series(base, shape) ==
    IF shape = <<>> THEN <<Bar(1, base)>>
    ELSE LET k == Len(shape)
         IN AppendRun(Series(base, SubSeq(shape, 1, k - 1)), shape[k][1], shape[k][2])

\* 100, 101, ..., 159
Rising60 == Series(100, <<<<45, 1>>, <<5, 1>>, <<9, 1>>>>)

\* fifty closes of 100
Flat50 == Series(100, <<<<45, 0>>, <<4, 0>>>>)

Pullback60 == Series(100, <<<<45, 1>>, <<5, -3>>, <<5, 3>>>>)

Rebound60 == Series(600, <<<<45, -13>>, <<5, 13>>, <<9, -3>>>>)

\* the 15-minute series a request may be served from
IntradaySeries == {Rising60, Flat50, Pullback60, Rebound60, Series(100, <<>>)}

NoSignal == [timeframe |-> "", signal |-> "", strength |-> 0,
             indicators |-> [sma20 |-> NaN, sma50 |-> NaN, rsi |-> NaN, momentum |-> NaN]]

NoResponse == [status |-> 0]

(***************************************************************************)
(* The dashboard before its first render is committed: the initial values  *)
(* of its useState hooks, no request sent.  homeData is the symbol of the   *)
(* MarketData held in `data`, "" for null.                                  *)
(***************************************************************************)
Tickers == {"AAPL", "MSFT"}

HomeUnmounted ==
    /\ symbol = "AAPL"
    /\ inputSymbol = "AAPL"
    /\ homeData = ""
    /\ loading = FALSE
    /\ error = ""
    /\ mounted = FALSE
    /\ inFlight = [t \in Tickers |-> 0]
    /\ submits = 0
    /\ lastSubmitted = ""
    /\ failed = FALSE

(***************************************************************************)
(* Spec: one request after another, each served from a freshly fed daily   *)
(* series and one 15-minute series.                                        *)
(***************************************************************************)
Init ==
    /\ pc = "feed"
    /\ dataDaily = <<>>
    /\ runs = 0
    /\ period = 0
    /\ outSMA = NaN
    /\ outRSI = NaN
    /\ outMomentum = NaN
    /\ dailySignal = NoSignal
    /\ intradaySignal = NoSignal
    /\ combinedSignal = NoSignal
    /\ recommendation = <<>>
    /\ response = NoResponse
    /\ HomeUnmounted

generateSyntheticData ==
    /\ pc = "feed"
    /\ \/ /\ dataDaily = <<>>
          /\ \E base \in BasePrices : dataDaily' = <<Bar(1, base)>>
          /\ runs' = runs
       \/ /\ dataDaily # <<>>
          /\ runs < MaxRuns
          /\ \E n \in RunLens, step \in Steps :
                /\ Len(dataDaily) + n <= MaxLen
                /\ dataDaily[Len(dataDaily)].close + step * n > 0
                /\ dataDaily' = AppendRun(dataDaily, n, step)
          /\ runs' = runs + 1
    /\ UNCHANGED <<pc, period, outSMA, outRSI, outMomentum, dailySignal, intradaySignal,
                   combinedSignal, recommendation, response>>
    /\ UNCHANGED homeVars

\* a request whose method is not GET
handlerMethodNotAllowed ==
    /\ pc = "feed"
    /\ pc' = "done"
    /\ response' = [status |-> 405, error |-> "Method not allowed"]
    /\ UNCHANGED <<dataDaily, runs, period, outSMA, outRSI, outMomentum, dailySignal,
                   intradaySignal, combinedSignal, recommendation>>
    /\ UNCHANGED homeVars

\* a GET request: signals, combination, recommendation and the 200 response.
\* The symbol echoed from the query is left out; no step of the try block
\* throws, so the 500 branch of the catch is never taken.
handler ==
    /\ pc = "feed"
    /\ pc' = "done"
    /\ \E data15m \in IntradaySeries :
          \E daily \in {generateSignal(dataDaily, "daily")},
             intraday \in {generateSignal(data15m, "15min")} :
             \E combined \in {combineSignals(daily, intraday)} :
                /\ dailySignal' = daily
                /\ intradaySignal' = intraday
                /\ combinedSignal' = combined
                /\ recommendation' = Recommendation(daily, intraday, combined)
                /\ response' = [status |-> 200,
                                data15m |-> SliceLast(data15m, 50),
                                dataDaily |-> SliceLast(dataDaily, 50)]
    /\ UNCHANGED <<dataDaily, runs, period, outSMA, outRSI, outMomentum>>
    /\ UNCHANGED homeVars

\* the handler keeps nothing: the next request starts from scratch
nextRequest ==
    /\ pc = "done"
    /\ pc' = "feed"
    /\ dataDaily' = <<>>
    /\ runs' = 0
    /\ dailySignal' = NoSignal
    /\ intradaySignal' = NoSignal
    /\ combinedSignal' = NoSignal
    /\ recommendation' = <<>>
    /\ response' = NoResponse
    /\ UNCHANGED <<period, outSMA, outRSI, outMomentum>>
    /\ UNCHANGED homeVars

Next == generateSyntheticData \/ handlerMethodNotAllowed \/ handler \/ nextRequest

Spec == Init /\ [][Next]_vars

(***************************************************************************)
(* SpecIndicators: each indicator function and generateSignal applied to   *)
(* every short price series, with every period and with timestamps in and  *)
(* out of order.                                                           *)
(***************************************************************************)
PriceSeqs == UNION {[1..n -> 1..MaxClose] : n \in 0..MaxSeqLen}

TimeOrders == {"increasing", "decreasing", "constant"}

Stamp(order, i, n) ==
    IF order = "increasing" THEN i
    ELSE IF order = "decreasing" THEN n + 1 - i
    ELSE 1

BarsOf(closes, order) == [i \in 1..Len(closes) |-> Bar(Stamp(order, i, Len(closes)), closes[i])]

InitIndicators ==
    /\ pc = "input"
    /\ \E closes \in PriceSeqs, order \in TimeOrders : dataDaily = BarsOf(closes, order)
    /\ period \in 1..MaxPeriod
    /\ runs = 0
    /\ outSMA = NaN
    /\ outRSI = NaN
    /\ outMomentum = NaN
    /\ dailySignal = NoSignal
    /\ intradaySignal = NoSignal
    /\ combinedSignal = NoSignal
    /\ recommendation = <<>>
    /\ response = NoResponse
    /\ HomeUnmounted

callSMA ==
    /\ pc = "input"
    /\ pc' = "sma"
    /\ outSMA' = calculateSMA(Closes(dataDaily), period)
    /\ UNCHANGED <<dataDaily, runs, period, outRSI, outMomentum, dailySignal, intradaySignal,
                   combinedSignal, recommendation, response>>
    /\ UNCHANGED homeVars

callRSI ==
    /\ pc = "input"
    /\ pc' = "rsi"
    /\ outRSI' = calculateRSI(Closes(dataDaily), period)
    /\ UNCHANGED <<dataDaily, runs, period, outSMA, outMomentum, dailySignal, intradaySignal,
                   combinedSignal, recommendation, response>>
    /\ UNCHANGED homeVars

callMomentum ==
    /\ pc = "input"
    /\ pc' = "momentum"
    /\ outMomentum' = calculateMomentum(Closes(dataDaily), period)
    /\ UNCHANGED <<dataDaily, runs, period, outSMA, outRSI, dailySignal, intradaySignal,
                   combinedSignal, recommendation, response>>
    /\ UNCHANGED homeVars

callGenerateSignal ==
    /\ pc = "input"
    /\ pc' = "signal"
    /\ dailySignal' = generateSignal(dataDaily, "daily")
    /\ UNCHANGED <<dataDaily, runs, period, outSMA, outRSI, outMomentum, intradaySignal,
                   combinedSignal, recommendation, response>>
    /\ UNCHANGED homeVars

NextIndicators == callSMA \/ callRSI \/ callMomentum \/ callGenerateSignal

SpecIndicators == InitIndicators /\ [][NextIndicators]_vars

(***************************************************************************)
(* SpecCombine: combineSignals and the recommendation text on every pair   *)
(* of directions and every pair of integer strengths.                      *)
(***************************************************************************)
MaxStrength == 100

Directions == {"BUY", "SELL", "HOLD"}

DailyReadings == [sma20 |-> <<15025, 100>>, sma50 |-> <<14850, 100>>,
                  rsi |-> <<5512, 100>>, momentum |-> <<231, 100>>]

IntradayReadings == [sma20 |-> <<16110, 100>>, sma50 |-> <<16342, 100>>,
                     rsi |-> <<4407, 100>>, momentum |-> <<-118, 100>>]

InitCombine ==
    /\ pc = "input"
    /\ dailySignal \in [timeframe : {"daily"}, signal : Directions,
                        strength : 0..MaxStrength, indicators : {DailyReadings}]
    /\ intradaySignal \in [timeframe : {"15min"}, signal : Directions,
                           strength : 0..MaxStrength, indicators : {IntradayReadings}]
    /\ combinedSignal = NoSignal
    /\ recommendation = <<>>
    /\ dataDaily = <<>>
    /\ runs = 0
    /\ period = 0
    /\ outSMA = NaN
    /\ outRSI = NaN
    /\ outMomentum = NaN
    /\ response = NoResponse
    /\ HomeUnmounted

\* the handler from combineSignals to the recommendation
combineAndRecommend ==
    /\ pc = "input"
    /\ pc' = "combined"
    /\ \E combined \in {combineSignals(dailySignal, intradaySignal)} :
          /\ combinedSignal' = combined
          /\ recommendation' = Recommendation(dailySignal, intradaySignal, combined)
    /\ UNCHANGED <<dataDaily, runs, period, outSMA, outRSI, outMomentum, dailySignal,
                   intradaySignal, response>>
    /\ UNCHANGED homeVars

NextCombine == combineAndRecommend

SpecCombine == InitCombine /\ [][NextCombine]_vars

(***************************************************************************)
(* SpecHome: the dashboard page.  A request is on its way from the call of *)
(* axios.get until its promise settles; requests settle in any order.  The *)
(* market-data route answers a request for a ticker with the MarketData of *)
(* that ticker, which the page identifies by its symbol.                   *)
(***************************************************************************)
\* requests on their way at once, and form submissions in a run
MaxInFlight == 3
MaxSubmits == 2

\* what the user may type into the text field
Inputs == {"", " ", "AAPL", "msft", "MSFT"}

\* String.prototype.trim on the typed values
Trim(s) == IF s = " " THEN "" ELSE s

\* String.prototype.toUpperCase on the typed values
toUpperCase(s) == IF s = "msft" THEN "MSFT" ELSE s

InFlightCount == inFlight["AAPL"] + inFlight["MSFT"]

\* fetchData up to its await: the two state updates and the request
fetchData(ticker) ==
    /\ loading' = TRUE
    /\ error' = ""
    /\ inFlight' = [inFlight EXCEPT ![ticker] = @ + 1]

InitHome ==
    /\ HomeUnmounted
    /\ pc = "feed"
    /\ dataDaily = <<>>
    /\ runs = 0
    /\ period = 0
    /\ outSMA = NaN
    /\ outRSI = NaN
    /\ outMomentum = NaN
    /\ dailySignal = NoSignal
    /\ intradaySignal = NoSignal
    /\ combinedSignal = NoSignal
    /\ recommendation = <<>>
    /\ response = NoResponse

\* the effect after the first render: the initial fetch, and the interval
useEffectMount ==
    /\ ~mounted
    /\ mounted' = TRUE
    /\ fetchData(symbol)
    /\ UNCHANGED <<symbol, inputSymbol, homeData, submits, lastSubmitted, failed>>
    /\ UNCHANGED engineVars

\* onChange of the text field
setInputSymbol ==
    /\ mounted
    /\ \E v \in Inputs :
          /\ v # inputSymbol
          /\ inputSymbol' = v
    /\ UNCHANGED <<symbol, homeData, loading, error, mounted, inFlight, submits,
                   lastSubmitted, failed>>
    /\ UNCHANGED engineVars

\* the form is submitted; its button is disabled while loading, and a blank
\* field sends nothing
handleSubmit ==
    /\ mounted
    /\ ~loading
    /\ Trim(inputSymbol) # ""
    /\ submits < MaxSubmits
    /\ InFlightCount < MaxInFlight
    /\ fetchData(toUpperCase(inputSymbol))
    /\ submits' = submits + 1
    /\ lastSubmitted' = toUpperCase(inputSymbol)
    /\ UNCHANGED <<symbol, inputSymbol, homeData, mounted, failed>>
    /\ UNCHANGED engineVars

\* the interval of the current effect fires: a refresh of its symbol
intervalRefresh ==
    /\ mounted
    /\ InFlightCount < MaxInFlight
    /\ fetchData(symbol)
    /\ UNCHANGED <<symbol, inputSymbol, homeData, mounted, submits, lastSubmitted, failed>>
    /\ UNCHANGED engineVars

\* a request for ticker is answered: the rest of the try block and finally.
\* A changed symbol re-runs the effect, which clears the interval, fetches
\* the new symbol (loading again, after the finally) and sets a new interval.
responseArrives(ticker) ==
    /\ inFlight[ticker] > 0
    /\ homeData' = ticker
    /\ symbol' = ticker
    /\ IF ticker # symbol
       THEN /\ loading' = TRUE
            /\ error' = ""
            /\ inFlight' = inFlight
       ELSE /\ loading' = FALSE
            /\ error' = error
            /\ inFlight' = [inFlight EXCEPT ![ticker] = @ - 1]
    /\ UNCHANGED <<inputSymbol, mounted, submits, lastSubmitted, failed>>
    /\ UNCHANGED engineVars

\* a request fails: the catch block and finally
responseFails(ticker) ==
    /\ inFlight[ticker] > 0
    /\ inFlight' = [inFlight EXCEPT ![ticker] = @ - 1]
    /\ error' = "Failed to fetch market data"
    /\ loading' = FALSE
    /\ failed' = TRUE
    /\ UNCHANGED <<symbol, inputSymbol, homeData, mounted, submits, lastSubmitted>>
    /\ UNCHANGED engineVars

requestSettles(ticker) == responseArrives(ticker) \/ responseFails(ticker)

NextHome ==
    \/ useEffectMount
    \/ setInputSymbol
    \/ handleSubmit
    \/ intervalRefresh
    \/ \E ticker \in Tickers : responseArrives(ticker)
    \/ \E ticker \in Tickers : responseFails(ticker)

SpecHome == InitHome /\ [][NextHome]_vars

\* every request settles, and the interval keeps firing
FairHome ==
    /\ \A ticker \in Tickers : WF_vars(requestSettles(ticker))
    /\ WF_vars(intervalRefresh)

SpecHomeFair == InitHome /\ [][NextHome]_vars /\ FairHome

(***************************************************************************)
(* Properties.                                                             *)
(***************************************************************************)
\* a GET request has been answered
Served == pc = "done" /\ response.status = 200

IsSignal(sig) == sig.signal \in Directions /\ sig.strength >= 0 /\ sig.strength <= MaxStrength

\* C1: every Signal generateSignal returns, and the combination of two of
\* them, has a direction among BUY, SELL, HOLD and a strength in 0..100; the
\* BUY and the SELL condition never hold of the same series.
C1_SignalsInRange ==
    /\ Served => IsSignal(dailySignal) /\ IsSignal(intradaySignal) /\ IsSignal(combinedSignal)
    /\ \A ind \in {Indicators(Closes(dataDaily))} : ~(BuyCondition(ind) /\ SellCondition(ind))

C1_Witness ==
    /\ Served
    /\ Len(dataDaily) >= 50
    /\ dailySignal.signal = "SELL" /\ dailySignal.strength = 100
    /\ intradaySignal.signal = "BUY"
    /\ combinedSignal.signal = "HOLD"

\* the trend rule of C2, read off the unrounded indicators
RuleBuy(ind) ==
    /\ RGt(ind.currentPrice, ind.sma20) /\ RGt(ind.sma20, ind.sma50)
    /\ RLt(ind.rsi, R(70)) /\ RGt(ind.momentum, R(0))

RuleSell(ind) ==
    /\ RLt(ind.currentPrice, ind.sma20) /\ RLt(ind.sma20, ind.sma50)
    /\ RGt(ind.rsi, R(30)) /\ RLt(ind.momentum, R(0))

\* C2: generateSignal returns BUY exactly when P > sma20 > sma50, rsi < 70 and
\* momentum > 0, SELL exactly when P < sma20 < sma50, rsi > 30 and momentum < 0,
\* with strength min(100, base + bonus), and HOLD with strength 40 otherwise.
C2_TrendRule ==
    Served =>
      \A ind \in {Indicators(Closes(dataDaily))} :
        /\ dailySignal.signal = "BUY" <=> RuleBuy(ind)
        /\ dailySignal.signal = "SELL" <=> RuleSell(ind)
        /\ dailySignal.signal = "HOLD" <=> ~RuleBuy(ind) /\ ~RuleSell(ind)
        /\ RuleBuy(ind) =>
             dailySignal.strength =
               Min(100, (IF RLt(ind.rsi, R(30)) THEN 90 ELSE 70)
                        + (IF RGt(ind.momentum, R(5)) THEN 20 ELSE 10))
        /\ RuleSell(ind) =>
             dailySignal.strength =
               Min(100, (IF RGt(ind.rsi, R(70)) THEN 90 ELSE 70)
                        + (IF RLt(ind.momentum, R(-5)) THEN 20 ELSE 10))
        /\ dailySignal.signal = "HOLD" => dailySignal.strength = 40

C2_Witness ==
    /\ Served
    /\ dailySignal.signal = "BUY" /\ dailySignal.strength = 90
    /\ RGt(Indicators(Closes(dataDaily)).momentum, R(5))

Combined == pc = "combined"

\* the direction table of C3
TableDirection(d, i) ==
    IF d = i THEN d
    ELSE IF d = "BUY" /\ i = "HOLD" THEN "BUY"
    ELSE IF d = "SELL" /\ i = "HOLD" THEN "SELL"
    ELSE "HOLD"

\* C3: for each of the nine pairs of directions combineSignals returns the
\* shared direction, BUY for (BUY, HOLD), SELL for (SELL, HOLD) and HOLD for
\* every other pair, whatever the two strengths.
C3_DirectionTable ==
    Combined => combinedSignal.signal = TableDirection(dailySignal.signal, intradaySignal.signal)

C3_Witness ==
    /\ Combined
    /\ dailySignal.signal = "BUY" /\ dailySignal.strength = 80
    /\ intradaySignal.signal = "SELL" /\ intradaySignal.strength = 60
    /\ combinedSignal.signal = "HOLD"

Max(a, b) == IF a > b THEN a ELSE b

\* C4: the combined strength is the integer nearest to (6d + 4i)/10, which is
\* never a tie; it lies between min(d, i) and max(d, i); 80 and 60 give 72.
C4_WeightedStrength ==
    Combined =>
      LET d == dailySignal.strength
          i == intradaySignal.strength
          r == combinedSignal.strength
      IN /\ 10 * r - 5 < 6 * d + 4 * i
         /\ 6 * d + 4 * i < 10 * r + 5
         /\ Min(d, i) <= r /\ r <= Max(d, i)
         /\ (d = 80 /\ i = 60) => r = 72

C4_Witness ==
    /\ Combined
    /\ dailySignal.strength = 80 /\ intradaySignal.strength = 60
    /\ dailySignal.signal = "HOLD" /\ intradaySignal.signal = "BUY"
    /\ combinedSignal.strength = 72

\* the text names a Signal's direction, followed by its strength in percent
Cites(text, sig) ==
    \E k \in 1..(Len(text) - 1) :
       /\ text[k] = sig.signal
       /\ \E j \in (k + 1)..Min(k + 2, Len(text)) :
             text[j] \in {Pct(sig.strength), "(" \o Pct(sig.strength) \o "),",
                          "(" \o Pct(sig.strength) \o ")."}

\* C5: the recommendation of a combined BUY (SELL) begins "Strong BUY" when
\* the combined strength exceeds 80 and "Moderate BUY", without "Strong",
\* otherwise; a combined HOLD gives the mixed-conditions text; each text
\* cites both timeframes' direction and strength.
C5_RecommendationWording ==
    Combined =>
      /\ combinedSignal.signal \in {"BUY", "SELL"} /\ combinedSignal.strength > 80
           => SubSeq(recommendation, 1, 2) = <<"Strong", combinedSignal.signal>>
      /\ combinedSignal.signal \in {"BUY", "SELL"} /\ combinedSignal.strength <= 80
           => SubSeq(recommendation, 1, 2) = <<"Moderate", combinedSignal.signal>>
      /\ combinedSignal.signal = "HOLD"
           => SubSeq(recommendation, 1, 6)
                = <<"HOLD", "position.", "Market", "conditions", "are", "mixed.">>
      /\ Cites(recommendation, dailySignal)
      /\ Cites(recommendation, intradaySignal)

Malformed(data) ==
    data = <<>> \/ \E i \in 1..(Len(data) - 1) : data[i].timestamp >= data[i + 1].timestamp

\* C6, as claimed: generateSignal answers an empty series, or one whose
\* timestamps are not strictly increasing, with a failure and no ordinary Signal.
C6_MalformedRejected ==
    pc = "signal" /\ Malformed(dataDaily) => dailySignal.signal \notin Directions

\* C6, amended: generateSignal never reads the timestamps and rejects nothing:
\* for such a series it returns the ordinary Signal of the closes alone, and
\* for the empty series HOLD/40 with sma20 = sma50 = 0, rsi = 50, momentum = 0.
C6_MalformedAccepted ==
    pc = "signal" /\ Malformed(dataDaily) =>
      /\ IsSignal(dailySignal)
      /\ dailySignal = generateSignal(BarsOf(Closes(dataDaily), "increasing"), "daily")
      /\ dataDaily = <<>> =>
           /\ dailySignal.signal = "HOLD" /\ dailySignal.strength = 40
           /\ dailySignal.indicators = [sma20 |-> <<0, 100>>, sma50 |-> <<0, 100>>,
                                        rsi |-> <<5000, 100>>, momentum |-> <<0, 100>>]

C6_Witness ==
    /\ pc = "signal"
    /\ Len(dataDaily) >= 2
    /\ dataDaily[1].timestamp > dataDaily[2].timestamp
    /\ dailySignal.signal = "HOLD"

\* C7, as claimed: on the closes 100, 101, ..., 159 the indicators satisfy
\* rsi > 70, momentum > 0, sma20 > sma50, close > sma20 and the Signal is BUY
\* with strength min(100, 70 + bonus).
C7_RisingIsBuy ==
    Served /\ dataDaily = Rising60 =>
      \A ind \in {Indicators(Closes(dataDaily))} :
        /\ RGt(ind.rsi, R(70)) /\ RGt(ind.momentum, R(0))
        /\ RGt(ind.sma20, ind.sma50) /\ RGt(ind.currentPrice, ind.sma20)
        /\ dailySignal.signal = "BUY"
        /\ dailySignal.strength = Min(100, 70 + (IF RGt(ind.momentum, R(5)) THEN 20 ELSE 10))

\* C7, amended: on that series rsi = 100 > 70, momentum > 0, sma20 > sma50 and
\* close > sma20, and the Signal is HOLD with strength 40, since BUY needs rsi < 70.
C7_RisingIsHold ==
    Served /\ dataDaily = Rising60 =>
      \A ind \in {Indicators(Closes(dataDaily))} :
        /\ RGt(ind.rsi, R(70)) /\ REq(ind.rsi, R(100)) /\ RGt(ind.momentum, R(0))
        /\ RGt(ind.sma20, ind.sma50) /\ RGt(ind.currentPrice, ind.sma20)
        /\ dailySignal.signal = "HOLD"
        /\ dailySignal.strength = 40

C7_Witness ==
    /\ Served
    /\ dataDaily = Rising60
    /\ dailySignal.indicators = [sma20 |-> <<14950, 100>>, sma50 |-> <<13450, 100>>,
                                 rsi |-> <<10000, 100>>, momentum |-> <<600, 100>>]

\* s[lo] + ... + s[hi]
RECURSIVE SumRange(_, _, _)
SumRange(s, lo, hi) == IF lo > hi THEN 0 ELSE s[lo] + SumRange(s, lo + 1, hi)

\* C8, as claimed: 0 below `period` elements, otherwise the percentage change
\* from the close `period` steps before the last one (index length-1-period).
\* With exactly `period` elements there is no such close; nothing is asked there.
C8_MomentumPeriodStepsBack ==
    pc = "momentum" =>
      LET c == Closes(dataDaily)
          n == Len(c)
          past == At(c, n - 1 - period)
      IN /\ n < period => REq(outMomentum, R(0))
         /\ n > period => REq(outMomentum, RMul(RDiv(RSub(At(c, n - 1), past), past), R(100)))

\* C8, amended: 0 below `period` elements, otherwise the percentage change
\* from the close at index length-period, which is period-1 steps before the
\* last one (the first of the last `period` closes).
C8_MomentumFromWindowStart ==
    pc = "momentum" =>
      LET c == Closes(dataDaily)
          n == Len(c)
      IN /\ n < period => REq(outMomentum, R(0))
         /\ n >= period =>
              /\ IsNum(outMomentum)
              /\ outMomentum[1] * c[n - period + 1]
                   = (c[n] - c[n - period + 1]) * 100 * outMomentum[2]

C8_Witness ==
    /\ pc = "momentum"
    /\ Len(dataDaily) > period
    /\ dataDaily[Len(dataDaily) - period].close # dataDaily[Len(dataDaily) - period + 1].close
    /\ RLt(outMomentum, R(0))

\* the differences among the last p that are gains (sign = 1) or losses (-1), summed
TrailingMove(c, p, sign) ==
    LET n == Len(c)
        move == [i \in (n - p + 1)..n |->
                   IF sign * (c[i] - c[i - 1]) > 0 THEN sign * (c[i] - c[i - 1]) ELSE 0]
    IN SumRange(move, n - p + 1, n)

\* C9: calculateRSI returns 50 below period+1 prices; otherwise 100 when none
\* of the last `period` differences is negative; otherwise
\* 100 - 100/(1 + avgGain/avgLoss) = 100 G/(G + L), a value in [0, 100).
C9_RSI ==
    pc = "rsi" =>
      LET c == Closes(dataDaily)
          n == Len(c)
      IN /\ n < period + 1 => outRSI = R(50)
         /\ n >= period + 1 =>
              \A G \in {TrailingMove(c, period, 1)}, L \in {TrailingMove(c, period, -1)} :
                /\ (\A i \in (n - period + 1)..n : c[i] - c[i - 1] >= 0) => outRSI = R(100)
                /\ (\E i \in (n - period + 1)..n : c[i] - c[i - 1] < 0) =>
                     /\ IsNum(outRSI)
                     /\ outRSI[1] * (G + L) = 100 * G * outRSI[2]
                     /\ ~RLt(outRSI, R(0)) /\ RLt(outRSI, R(100))

C9_Witness ==
    /\ pc = "rsi"
    /\ Len(dataDaily) > period + 1
    /\ RGt(outRSI, R(0)) /\ RLt(outRSI, R(50))

\* C10: calculateSMA returns the mean of the last `period` elements when there
\* are that many, else the most recent element, or 0 for no element; it
\* always returns a number.
C10_SMA ==
    pc = "sma" =>
      LET c == Closes(dataDaily)
          n == Len(c)
      IN /\ IsNum(outSMA)
         /\ n >= period => outSMA[1] * period = SumRange(c, n - period + 1, n) * outSMA[2]
         /\ (n > 0 /\ n < period) => REq(outSMA, R(c[n]))
         /\ n = 0 => REq(outSMA, R(0))

C10_Witness ==
    /\ pc = "sma"
    /\ Len(dataDaily) > period
    /\ outSMA[1] % outSMA[2] # 0
    /\ dataDaily[1].close > dataDaily[Len(dataDaily)].close

\* C11: for the close series of 50 values all equal to 100, generateSignal
\* finds sma20 = sma50 = 100, RSI = 100 (the zero-loss branch, not 50) and
\* momentum = 0, and returns HOLD with strength 40.
FlatServed == Served /\ response.data15m = Flat50

C11_FlatSeries ==
    FlatServed =>
      /\ Len(Flat50) = 50
      /\ \A i \in 1..Len(Flat50) : Flat50[i].close = 100
      /\ intradaySignal.signal = "HOLD"
      /\ intradaySignal.strength = 40
      /\ REq(intradaySignal.indicators.sma20, R(100))
      /\ REq(intradaySignal.indicators.sma50, R(100))
      /\ REq(intradaySignal.indicators.rsi, R(100))
      /\ ~REq(intradaySignal.indicators.rsi, R(50))
      /\ REq(intradaySignal.indicators.momentum, R(0))

C11_Witness ==
    /\ FlatServed
    /\ intradaySignal.timeframe = "15min"
    /\ REq(intradaySignal.indicators.rsi, R(100))
    /\ intradaySignal.signal = "HOLD"

\* C12: combineSignals returns a new Signal labelled "combined" whose
\* indicators are the daily input's for every pair of inputs, whatever the
\* intraday indicators are, and the call leaves both input Signals as they
\* were, field by field.
CombineCall == pc = "input" /\ pc' = "combined"

C12_CombineFrame ==
    /\ [](Combined =>
            /\ combinedSignal.timeframe = "combined"
            /\ combinedSignal.indicators = dailySignal.indicators
            /\ combinedSignal.indicators = DailyReadings
            /\ dailySignal.timeframe = "daily"
            /\ intradaySignal.timeframe = "15min"
            /\ intradaySignal.indicators = IntradayReadings)
    /\ [][CombineCall =>
            /\ dailySignal'.timeframe = dailySignal.timeframe
            /\ dailySignal'.signal = dailySignal.signal
            /\ dailySignal'.strength = dailySignal.strength
            /\ dailySignal'.indicators = dailySignal.indicators
            /\ intradaySignal'.timeframe = intradaySignal.timeframe
            /\ intradaySignal'.signal = intradaySignal.signal
            /\ intradaySignal'.strength = intradaySignal.strength
            /\ intradaySignal'.indicators = intradaySignal.indicators]_vars

C12_Witness ==
    /\ Combined
    /\ dailySignal.signal = "BUY"
    /\ intradaySignal.signal = "SELL"
    /\ dailySignal.indicators # intradaySignal.indicators
    /\ combinedSignal.timeframe = "combined"
    /\ combinedSignal.indicators.rsi = dailySignal.indicators.rsi

\* C13: a series of fewer than 50 bars always yields HOLD with strength 40:
\* below 20 bars sma20 is the latest close, from 20 to 49 bars sma50 is the
\* latest close, so neither strict chain P > sma20 > sma50 nor
\* P < sma20 < sma50 holds; BUY and SELL need at least 50 bars.
ShortServed == Served /\ Len(dataDaily) < 50

C13_ShortSeriesHold ==
    /\ ShortServed =>
         \A ind \in {Indicators(Closes(dataDaily))} :
            /\ dailySignal.signal = "HOLD"
            /\ dailySignal.strength = 40
            /\ Len(dataDaily) \in 1..19 => REq(ind.sma20, ind.currentPrice)
            /\ Len(dataDaily) \in 20..49 => REq(ind.sma50, ind.currentPrice)
            /\ ~(RGt(ind.currentPrice, ind.sma20) /\ RGt(ind.sma20, ind.sma50))
            /\ ~(RLt(ind.currentPrice, ind.sma20) /\ RLt(ind.sma20, ind.sma50))
    /\ (Served /\ dailySignal.signal \in {"BUY", "SELL"}) => Len(dataDaily) >= 50

\* 20..49 bars whose rsi, momentum and P > sma20 would all allow BUY
C13_Witness ==
    /\ ShortServed
    /\ Len(dataDaily) \in 20..49
    /\ \A ind \in {Indicators(Closes(dataDaily))} :
          /\ RGt(ind.currentPrice, ind.sma20)
          /\ RLt(ind.rsi, R(70))
          /\ RGt(ind.momentum, R(0))
    /\ dailySignal.signal = "HOLD"

\* C14: in the dashboard, if the user's last submission is for ticker S and
\* every request succeeds, then from some moment on the displayed symbol and
\* data are those of S for ever, whatever the order of the initial fetch, the
\* periodic refreshes, the submissions and the arrivals of the responses.
ShowsLastSubmitted == symbol = lastSubmitted /\ homeData = lastSubmitted

C14_LastSubmissionWins ==
    <>[](failed \/ lastSubmitted = "" \/ ShowsLastSubmitted)

====
